---- MODULE Spec2Model ----
(***************************************************************************)
(* Latent profile analysis pipeline of 3_latent_profile.py: the sweep over *)
(* candidate component counts (finetune_model), the entropy estimator, the *)
(* likelihood decomposer, the finalizer (build_model_and_fit) and the      *)
(* persistence steps of main.                                              *)
(*                                                                         *)
(* Floating point values are kept by class (finite, -inf, +inf, nan) where *)
(* the code branches on nothing else, and as symbolic terms of the fitted  *)
(* model where only their dependence matters.  numpy arrays are records    *)
(* [shape, flat] in row-major order.  The EM fit of sklearn is a black box *)
(* of the program: its outcome class for each component count is the       *)
(* variable em, fixed for a run, and the learned parameters are stand-in   *)
(* values of the shape sklearn documents for each covariance_type.         *)
(***************************************************************************)
EXTENDS Integers, Sequences, FiniteSets, TLC

VARIABLES
    scaled,            \* the standardized matrix (line 21)
    lpa_data,          \* module-level DataFrame (line 23): [columns, rows]
    files,             \* the file system under saved_path: path -> content
    em,                \* EM's outcome class per component count on this data
    pc,                \* position of main (lines 160-169) or of the caller
    model_config,      \* main's local model_config
    n,                 \* finetune_model's loop variable
    lists,             \* finetune_model's five lists
    params_seraching,  \* main's local: the dict finetune_model returned
    pred_labels,       \* main's local: labels returned by build_model_and_fit
    model,             \* main's local: the finalized model
    save_path,         \* main's local: dict returned by _name_saved_files
    exc,               \* the exception that left main, or None
    stdout,            \* lines printed
    finalized,         \* results of the build_model_and_fit calls made so far
    ncalls,            \* number of calls the caller has made
    gmm_model,         \* argument of compute_gmm_entropy
    total_entropy      \* value returned by compute_gmm_entropy

vars == <<scaled, lpa_data, files, em, pc, model_config, n, lists,
          params_seraching, pred_labels, model, save_path, exc, stdout, finalized,
          ncalls, ncalls, gmm_model,
                   total_entropy>>

\* Python's None
None == <<>>

-----------------------------------------------------------------------------
(* Bounds of the model *)

\* largest number of observations of a data set
MaxRows == 9
\* largest number of component counts on which EM does not simply converge
MaxAnomalies == 2
\* largest number of operations a caller of the module's functions makes
MaxCalls == 3
\* largest number of components of a mixture handed to compute_gmm_entropy
MaxComponents == 2
\* common denominator of the mixing weights handed to compute_gmm_entropy
WDen == 4

-----------------------------------------------------------------------------
(* Program constants *)

\* ModelConfig.random_state
DefaultRandomState == 459
\* ModelConfig.max_iter
DefaultMaxIter == 300
\* range(1, 10): the exclusive upper end of the sweep
NProfilesStop == 10
\* build_model_and_fit(5, model_config)
FinalNComponents == 5

CovarianceTypes == {"full", "diag", "tied", "spherical"}

\* ModelConfig() (lines 27-34)
ModelConfig(ct) ==
    [random_state |-> DefaultRandomState, max_iter |-> DefaultMaxIter,
     covariance_type |-> ct]

DefaultModelConfig == ModelConfig("full")

\* a sweep that stops one candidate short
n_profiles_short == 1..(NProfilesStop - 2)

\* range(1, 10) of finetune_model
n_profiles == 1..(NProfilesStop - 1)

-----------------------------------------------------------------------------
(* General helpers *)

Min(a, b) == IF a <= b THEN a ELSE b

RECURSIVE SeqSum(_)
SeqSum(s) == IF s = <<>> THEN 0 ELSE Head(s) + SeqSum(Tail(s))

RECURSIVE Prod(_)
Prod(s) == IF s = <<>> THEN 1 ELSE Head(s) * Prod(Tail(s))

Ok(v) == [ok |-> TRUE, val |-> v]

\* a printed line: its text, and the candidate it is about (0 when none)
Line(text, k) == [text |-> text, k |-> k]
Raise(type, at) == [ok |-> FALSE, exc |-> [type |-> type, at |-> at]]

-----------------------------------------------------------------------------
(* numpy arrays *)

Arr(shape, flat) == [shape |-> shape, flat |-> flat]

Full(shape, v) == Arr(shape, [i \in 1..Prod(shape) |-> v])

\* a[k] for a 0-based index k: the k-th slice along the first axis
Index0(a, k) ==
    LET m == Prod(Tail(a.shape))
    IN  Arr(Tail(a.shape), SubSeq(a.flat, k * m + 1, (k + 1) * m))

\* the flat data of the (d-1)x(d-1) matrix left when row 1 and column j go
MinorFlat(d, flat, j) ==
    [i \in 1..((d - 1) * (d - 1)) |->
        LET r == ((i - 1) \div (d - 1)) + 2
            c0 == ((i - 1) % (d - 1)) + 1
            c == IF c0 < j THEN c0 ELSE c0 + 1
        IN  flat[(r - 1) * d + c]]

RECURSIVE DetFlat(_, _)
DetFlat(d, flat) ==
    CASE d = 0 -> 1
      [] d = 1 -> flat[1]
      [] d = 2 -> flat[1] * flat[4] - flat[2] * flat[3]
      [] d = 3 -> flat[1] * (flat[5] * flat[9] - flat[6] * flat[8])
                    - flat[2] * (flat[4] * flat[9] - flat[6] * flat[7])
                    + flat[3] * (flat[4] * flat[8] - flat[5] * flat[7])
      [] OTHER -> SeqSum([j \in 1..d |->
                    (IF j % 2 = 1 THEN 1 ELSE -1) * flat[j]
                        * DetFlat(d - 1, MinorFlat(d, flat, j))])

\* the flat data of the leading k x k block of a d x d matrix
LeadingFlat(d, flat, k) ==
    [i \in 1..(k * k) |-> flat[((i - 1) \div k) * d + ((i - 1) % k) + 1]]

\* symmetric positive definite: every leading principal minor is positive
PositiveDefinite(d, flat) ==
    \A k \in 1..d : DetFlat(k, LeadingFlat(d, flat, k)) > 0

-----------------------------------------------------------------------------
(* Floating point values by class *)

FloatClasses == {"fin", "ninf", "pinf", "nan"}

FNeg(x) == IF x = "ninf" THEN "pinf" ELSE IF x = "pinf" THEN "ninf" ELSE x

FAdd(x, y) ==
    IF x = "nan" \/ y = "nan" THEN "nan"
    ELSE IF x = "fin" THEN y
    ELSE IF y = "fin" THEN x
    ELSE IF x = y THEN x
    ELSE "nan"

\* w * x for a number w known by its sign and a value x known by its class
FScale(w, x) ==
    IF x = "nan" THEN "nan"
    ELSE IF w > 0 THEN x
    ELSE IF w < 0 THEN FNeg(x)
    ELSE IF x = "fin" THEN "fin" ELSE "nan"

RECURSIVE FSum(_)
FSum(s) == IF s = <<>> THEN "fin" ELSE FAdd(Head(s), FSum(Tail(s)))

\* np.log of a real number
NpLog(x) == IF x > 0 THEN "fin" ELSE IF x = 0 THEN "ninf" ELSE "nan"

-----------------------------------------------------------------------------
(* The standardized data (lines 17-23) *)

FeatureColumns == <<"ns", "m", "d", "e">>

\* a standardized cell, as a small signed code
Cell(i, j) == ((i * j) % 11) - 5

\* scaler.fit_transform(df): one row of four cells per observation
Scaled(rows_n) ==
    [i \in 1..rows_n |-> [j \in 1..Len(FeatureColumns) |-> Cell(i, j)]]

\* the data sets of a run: one too small for the largest candidate, one not
Matrices == {Scaled(rows_n) : rows_n \in {MaxRows - 1, MaxRows}}

\* pd.DataFrame(scaled, columns=df.columns)
DataFrame(matrix, columns) == [columns |-> columns, rows |-> matrix]

NSamples(X) == Len(X.rows)
NFeatures(X) == Len(X.columns)

-----------------------------------------------------------------------------
(* sklearn.mixture.GaussianMixture, as lines 99-102 and 137-139 use it *)

FitOutcomes == {"converged", "not_converged", "ill_defined_covariance"}

\* EM's outcome for every candidate count: a single Gaussian is fitted in
\* closed form and always converges; at most MaxAnomalies other counts do not
EmOracles ==
    {f \in [n_profiles -> FitOutcomes] :
        /\ f[1] = "converged"
        /\ Cardinality({k \in n_profiles : f[k] # "converged"}) <= MaxAnomalies}

\* GaussianMixture(n_components=..., covariance_type=..., random_state=...,
\* max_iter=...): a fresh, unfitted estimator
GaussianMixture(n_components, cfg) ==
    [n_components |-> n_components,
     covariance_type |-> cfg.covariance_type,
     random_state |-> cfg.random_state,
     max_iter |-> cfg.max_iter]

\* a positive definite d x d stand-in covariance: 2 on the diagonal, 1 off it
CovFlat(d) == [i \in 1..(d * d) |-> IF (i - 1) \div d = (i - 1) % d THEN 2 ELSE 1]

RECURSIVE Repeat(_, _)
Repeat(s, k) == IF k = 0 THEN <<>> ELSE s \o Repeat(s, k - 1)

\* covariances_ in the shape sklearn gives it for each covariance_type
Covariances(ct, k, d) ==
    CASE ct = "full"      -> Arr(<<k, d, d>>, Repeat(CovFlat(d), k))
      [] ct = "tied"      -> Arr(<<d, d>>, CovFlat(d))
      [] ct = "diag"      -> Full(<<k, d>>, 2)
      [] ct = "spherical" -> Full(<<k>>, 2)

\* model.fit(X): the checks of the input, then EM with outcome class outcome.
\* Non-convergence within max_iter is a ConvergenceWarning, not an exception.
\* X_fit stands for the dependence of the learned parameters on the data.
Fit(gm, X, outcome) ==
    IF NSamples(X) < 2 \/ NSamples(X) < gm.n_components
    THEN Raise("ValueError", "fit")
    ELSE IF outcome = "ill_defined_covariance"
    THEN Raise("ValueError", "fit")
    ELSE Ok([n_components |-> gm.n_components,
             covariance_type |-> gm.covariance_type,
             random_state |-> gm.random_state,
             max_iter |-> gm.max_iter,
             converged_ |-> (outcome = "converged"),
             weights_ |-> Full(<<gm.n_components>>, 1),
             weights_den |-> gm.n_components,
             means_ |-> Full(<<gm.n_components, NFeatures(X)>>, 0),
             covariances_ |-> Covariances(gm.covariance_type, gm.n_components,
                                          NFeatures(X)),
             X_fit |-> X])

\* what a statistic of a fitted model is a function of
ParamsKey(m) ==
    [n_components |-> m.n_components, covariance_type |-> m.covariance_type,
     random_state |-> m.random_state, max_iter |-> m.max_iter,
     converged_ |-> m.converged_, X_fit |-> m.X_fit]

Stat(name, m, X) == [stat |-> name, of |-> ParamsKey(m), on |-> X]

\* a row as one number
RowCode(row) == SeqSum([j \in 1..Len(row) |-> j * row[j]])

\* the weighted log probability of a row under component k (0-based), as a
\* stand-in for the posterior EM learned
WeightedLogProb(m, row, k) ==
    0 - ((RowCode(row) + Len(row) + m.random_state + k) % m.n_components)

\* an arg-max that counts components from one
ArgMax1(f, k) ==
    1 + CHOOSE i \in 0..(k - 1) :
            /\ \A j \in 0..(k - 1) : f[j] <= f[i]
            /\ \A j \in 0..(i - 1) : f[j] < f[i]

\* np.argmax: the first index of the largest value
ArgMax0(f, k) ==
    CHOOSE i \in 0..(k - 1) :
        /\ \A j \in 0..(k - 1) : f[j] <= f[i]
        /\ \A j \in 0..(i - 1) : f[j] < f[i]

\* model.predict(X): the arg-max component of every row
Predict(m, X) ==
    [i \in 1..NSamples(X) |->
        ArgMax0([k \in 0..(m.n_components - 1) |-> WeightedLogProb(m, X.rows[i], k)],
                m.n_components)]

\* .astype(np.int32): a label is an index below n_components, far inside
\* the 32-bit range, where the cast changes nothing
AsInt32(x) == x

-----------------------------------------------------------------------------
(* Entropy estimator (lines 37-62) *)

\* scipy.linalg.det accepts a square matrix and raises ValueError otherwise
DetAccepts(cov) == Len(cov.shape) = 2 /\ cov.shape[1] = cov.shape[2]

\* scipy.linalg.det of a square matrix
det(cov) == DetFlat(cov.shape[1], cov.flat)

\* a logarithm that clamps a determinant of zero to a positive floor
LogDetClamped(d) == NpLog(IF d = 0 THEN 1 ELSE d)

\* np.log(det(cov)) of line 57
LogDet(d) == NpLog(d)

\* scipy.stats.entropy(pk): pk normalised to sum 1, then -sum(pk * log(pk))
entropy(weights) ==
    IF (\E i \in 1..Len(weights.flat) : weights.flat[i] < 0)
         \/ SeqSum(weights.flat) = 0
    THEN "nan" ELSE "fin"

\* zip(gmm_model.weights_, gmm_model.covariances_): pairs along the first axes
ZipLen(gm) == Min(gm.weights_.shape[1], gm.covariances_.shape[1])

\* lines 56-59: w * (np.log(det(cov)) + n_features * (1 + np.log(2 * np.pi)))
ComponentTerm(w, cov) == FScale(w, FAdd(LogDet(det(cov)), "fin"))

\* lines 53-62: n_features * (1 + log(2 pi)) is a finite constant and the
\* factor 0.5 keeps the class of the sum
compute_gmm_entropy(gm) ==
    IF \E i \in 1..ZipLen(gm) : ~DetAccepts(Index0(gm.covariances_, i - 1))
    THEN Raise("ValueError", "compute_gmm_entropy")
    ELSE LET mixing_entropy == entropy(gm.weights_)
             component_entropies ==
                 FSum([i \in 1..ZipLen(gm) |->
                         ComponentTerm(gm.weights_.flat[i],
                                       Index0(gm.covariances_, i - 1))])
         IN  Ok(FAdd(mixing_entropy, FScale(1, component_entropies)))

-----------------------------------------------------------------------------
(* Likelihood decomposer (lines 64-87) *)

\* multivariate_normal.logpdf(X, mean=mean, cov=cov): a scalar covariance is
\* cov * I, a vector is a diagonal, and the matrix must be positive definite
LogpdfAccepts(cov, dim) ==
    CASE Len(cov.shape) = 0 -> cov.flat[1] > 0
      [] Len(cov.shape) = 1 ->
            cov.shape[1] = dim /\ \A i \in 1..dim : cov.flat[i] > 0
      [] Len(cov.shape) = 2 ->
            cov.shape = <<dim, dim>> /\ PositiveDefinite(dim, cov.flat)
      [] OTHER -> FALSE

\* gmm.covariances_[k] of line 72 is an IndexError past the first axis
InRange(gm, k) == k < gm.covariances_.shape[1]

\* component k (0-based) passes lines 71-74
ComponentPasses(gm, X, k) ==
    InRange(gm, k) /\ LogpdfAccepts(Index0(gm.covariances_, k), NFeatures(X))

\* the loop of lines 70-74: the first component that does not pass raises,
\* an IndexError when covariances_[k] does not exist, else logpdf's error
compute_component_loglikelihoods(gm, X) ==
    LET bad == {k \in 0..(gm.n_components - 1) : ~ComponentPasses(gm, X, k)}
        first == CHOOSE k \in bad : \A j \in bad : k <= j
    IN  IF bad = {} THEN Ok(Stat("log_probs", gm, X))
        ELSE IF ~InRange(gm, first)
        THEN Raise("IndexError", "compute_component_loglikelihoods")
        ELSE Raise("ValueError", "compute_component_loglikelihoods")

compute_component_contributions(gm, X) ==
    LET log_probs == compute_component_loglikelihoods(gm, X)
    IN  IF ~log_probs.ok THEN log_probs
        ELSE Ok([comp_ll |-> Stat("comp_ll", gm, X),
                 total_ll |-> Stat("total_ll", gm, X)])

-----------------------------------------------------------------------------
(* Model selector: finetune_model (lines 89-120) *)

ResultColumns == <<"aic", "bic", "n_components", "log-likelihood", "entropy">>

\* lines 90-94: the five empty lists
EmptyLists == [c \in {ResultColumns[i] : i \in 1..Len(ResultColumns)} |-> <<>>]

\* lines 100-112: what follows the construction of the estimator gm in a
\* pass of the loop.  Every call that can raise (fit, the likelihood
\* decomposer, the entropy estimator) comes before the five appends.
FitAndRecord(gm, data, outcome, ls) ==
    LET fit == Fit(gm, data, outcome)
    IN  IF ~fit.ok THEN fit
        ELSE LET m == fit.val
                 contrib == compute_component_contributions(m, data)
                 model_entropy == compute_gmm_entropy(m)
             IN  IF ~contrib.ok THEN contrib
                 ELSE IF ~model_entropy.ok THEN model_entropy
                 ELSE Ok([aic |-> Append(ls["aic"], Stat("aic", m, data)),
                          bic |-> Append(ls["bic"], Stat("bic", m, data)),
                          entropy |-> Append(ls["entropy"], model_entropy.val),
                          ll |-> Append(ls["log-likelihood"], contrib.val.total_ll),
                          n_components |-> Append(ls["n_components"], gm.n_components)])

\* a pass in which the estimator draws from a random state that the earlier
\* passes have advanced
SweepIterationSharedRng(k, data, cfg, outcome, ls) ==
    FitAndRecord(GaussianMixture(k, [cfg EXCEPT !.random_state = @ + Len(ls["aic"])]),
                 data, outcome, ls)

\* lines 98-112: one pass of the loop for candidate k, on a fresh estimator
\* seeded with model_config.random_state
SweepIteration(k, data, cfg, outcome, ls) ==
    FitAndRecord(GaussianMixture(k, cfg), data, outcome, ls)

\* the lists after a pass that did not raise
ListsAfter(r) ==
    [c \in DOMAIN EmptyLists |->
        CASE c = "aic" -> r.aic
          [] c = "bic" -> r.bic
          [] c = "n_components" -> r.n_components
          [] c = "log-likelihood" -> r.ll
          [] c = "entropy" -> r.entropy]

\* lines 98, 105, 106: what a pass prints
IterationOutput(k, r) ==
    IF r.ok THEN <<Line("latent", k), Line("model_entropy: ", k), Line("log-likelihood:", k)>>
    ELSE <<Line("latent", k)>>

RECURSIVE Sweep(_, _, _, _, _)
Sweep(k, data, cfg, oracle, ls) ==
    IF k \notin n_profiles THEN Ok(ls)
    ELSE LET r == SweepIteration(k, data, cfg, oracle[k], ls)
         IN  IF ~r.ok THEN r ELSE Sweep(k + 1, data, cfg, oracle, ListsAfter(r.val))

\* the whole call: the dict of lines 114-120, or the exception of a pass
finetune_model(data, cfg, oracle) == Sweep(1, data, cfg, oracle, EmptyLists)

-----------------------------------------------------------------------------
(* Persistence (lines 123-133, 143-157) and the finalizer (lines 136-140) *)

InfoCriterionPath == <<"results", "infoCriterion.csv">>
LabelsPath == <<"results", "lpa_k5.csv">>
ModelFolder(ct) == <<"results", "model_cov_", ct>>
ModelPath(ct) == <<"results", "model_cov_", ct, "model_cov_", ct, ".joblib">>
ResultPath(ct) == <<"results", "model_cov_", ct, "model_cov_", ct, ".npy">>

Paths ==
    {InfoCriterionPath, LabelsPath}
        \cup {ModelFolder(ct) : ct \in CovarianceTypes}
        \cup {ModelPath(ct) : ct \in CovarianceTypes}

\* what a path holds when it holds none of this run's artifacts, and a folder
Absent == [kind |-> "absent"]
Stale == [kind |-> "stale"]
Dir == [kind |-> "dir"]

\* os.path.exists
Exists(fs, p) == fs[p] # Absent

\* a save that catches the failure of the write and goes on
save_finetune_result_swallow(results, fs, out, io_ok) ==
    Ok([files |-> IF io_ok
                  THEN [fs EXCEPT ![InfoCriterionPath] =
                            [header |-> ResultColumns, table |-> results]]
                  ELSE fs,
        stdout |-> Append(out, Line("Saved results to infoCriterion.csv", 0))])

\* save_finetune_result(results, path): the table goes to infoCriterion.csv
\* and the message is printed after the write returned
save_finetune_result(results, fs, out, io_ok) ==
    IF ~io_ok THEN Raise("OSError", "save_finetune_result")
    ELSE Ok([files |-> [fs EXCEPT ![InfoCriterionPath] =
                            [header |-> ResultColumns, table |-> results]],
             stdout |-> Append(out, Line("Saved results to infoCriterion.csv", 0))])

\* lpa_data["cluster"] = pred_labels: the column is added, or replaced
WithCluster(frame, labels) ==
    IF \E j \in 1..Len(frame.columns) : frame.columns[j] = "cluster"
    THEN [columns |-> frame.columns,
          rows |-> [i \in 1..Len(frame.rows) |->
                      [j \in 1..Len(frame.columns) |->
                          IF frame.columns[j] = "cluster" THEN labels[i]
                          ELSE frame.rows[i][j]]]]
    ELSE [columns |-> Append(frame.columns, "cluster"),
          rows |-> [i \in 1..Len(frame.rows) |-> Append(frame.rows[i], labels[i])]]

\* save_predict_labels(lpa_data, pred_labels, save_path): the frame is
\* changed in place first, then written
save_predict_labels(frame, labels, fs, io_ok) ==
    IF Len(labels) # Len(frame.rows)
    THEN [ok |-> FALSE, exc |-> [type |-> "ValueError", at |-> "save_predict_labels"],
          frame |-> frame]
    ELSE IF ~io_ok
    THEN [ok |-> FALSE, exc |-> [type |-> "OSError", at |-> "save_predict_labels"],
          frame |-> WithCluster(frame, labels)]
    ELSE [ok |-> TRUE, frame |-> WithCluster(frame, labels),
          files |-> [fs EXCEPT ![LabelsPath] = WithCluster(frame, labels)]]

\* a finalizer that takes the component count from the comparison table: the
\* largest candidate whose fit converged
build_model_from_table(n_components, cfg) ==
    LET ks == {i \in 1..Len(params_seraching["aic"]) :
                  params_seraching["aic"][i].of.converged_}
        best == CHOOSE k \in ks : \A j \in ks : j <= k
        fit == Fit(GaussianMixture(best, cfg), lpa_data, em[best])
    IN  IF ~fit.ok THEN fit
        ELSE Ok([labels |-> [i \in 1..NSamples(lpa_data) |->
                                AsInt32(Predict(fit.val, lpa_data)[i])],
                 model |-> fit.val])

\* build_model_and_fit(n_components, model_config): fits on the module-level
\* lpa_data, whatever it holds when the call is made
build_model_and_fit(n_components, cfg) ==
    LET fit == Fit(GaussianMixture(n_components, cfg), lpa_data, em[n_components])
    IN  IF ~fit.ok THEN fit
        ELSE Ok([labels |-> [i \in 1..NSamples(lpa_data) |->
                                AsInt32(Predict(fit.val, lpa_data)[i])],
                 model |-> fit.val])

\* _name_saved_files(saved_path, model_config): makes the folder when it is
\* not there, and names the two files
name_saved_files(cfg, fs, io_ok) ==
    LET folder == ModelFolder(cfg.covariance_type)
        paths == [result |-> ResultPath(cfg.covariance_type),
                  model |-> ModelPath(cfg.covariance_type)]
    IN  IF Exists(fs, folder) THEN Ok([files |-> fs, save_path |-> paths])
        ELSE IF ~io_ok THEN Raise("OSError", "_name_saved_files")
        ELSE Ok([files |-> [fs EXCEPT ![folder] = Dir], save_path |-> paths])

\* dump(model, save_path['model'])
dump(m, path, fs, io_ok) ==
    IF ~io_ok THEN Raise("OSError", "dump")
    ELSE Ok([files |-> [fs EXCEPT ![path] = [joblib |-> m]]])

-----------------------------------------------------------------------------
(* main (lines 160-169) *)

\* main with the labels saved before the model is serialized
MainOrderLabelsBeforeDump ==
    <<"finetune", "save_finetune", "build", "name_files", "save_labels", "dump",
      "print">>

\* the statements of main, in order
MainOrder ==
    <<"finetune", "save_finetune", "build", "name_files", "dump", "save_labels",
      "print">>

PositionOf(step) == CHOOSE i \in 1..Len(MainOrder) : MainOrder[i] = step

After(step) ==
    IF PositionOf(step) = Len(MainOrder) THEN "done"
    ELSE MainOrder[PositionOf(step) + 1]

\* what no run of main touches
MainIdle ==
    /\ ncalls = 0
    /\ gmm_model = None
    /\ total_entropy = None

Init ==
    /\ scaled \in Matrices
    /\ lpa_data = DataFrame(scaled, FeatureColumns)
    /\ \E prior \in BOOLEAN :
          files = [p \in Paths |-> IF prior THEN Stale ELSE Absent]
    /\ em \in EmOracles
    /\ pc = MainOrder[1]
    /\ model_config = DefaultModelConfig
    /\ n = 1
    /\ lists = EmptyLists
    /\ params_seraching = None
    /\ pred_labels = None
    /\ model = None
    /\ save_path = None
    /\ exc = None
    /\ stdout = <<>>
    /\ finalized = <<>>
    /\ MainIdle

\* an exception leaves main
Propagate(e) ==
    /\ pc' = "raised"
    /\ exc' = e

\* one pass of the loop of finetune_model; the last pass returns the dict
FinetuneStep ==
    /\ pc = "finetune"
    /\ \E r \in {SweepIteration(n, lpa_data, model_config, em[n], lists)} :
           /\ stdout' = stdout \o IterationOutput(n, r)
           /\ IF ~r.ok
              THEN /\ Propagate(r.exc)
                   /\ UNCHANGED <<n, lists, params_seraching>>
              ELSE /\ lists' = ListsAfter(r.val)
                   /\ n' = n + 1
                   /\ IF n + 1 \in n_profiles
                      THEN UNCHANGED <<pc, params_seraching>>
                      ELSE /\ pc' = After("finetune")
                           /\ params_seraching' = ListsAfter(r.val)
                   /\ UNCHANGED exc
    /\ UNCHANGED <<scaled, lpa_data, files, em, model_config, pred_labels, model,
                   save_path, finalized, ncalls, gmm_model,
                   total_entropy>>

SaveFinetuneStep ==
    /\ pc = "save_finetune"
    /\ \E io_ok \in BOOLEAN :
          LET r == save_finetune_result(params_seraching, files, stdout, io_ok)
          IN  IF r.ok
              THEN /\ files' = r.val.files
                   /\ stdout' = r.val.stdout
                   /\ pc' = After("save_finetune")
                   /\ UNCHANGED exc
              ELSE /\ Propagate(r.exc)
                   /\ UNCHANGED <<files, stdout>>
    /\ UNCHANGED <<scaled, lpa_data, em, model_config, n, lists, params_seraching,
                   pred_labels, model, save_path, finalized, ncalls, gmm_model,
                   total_entropy>>

BuildStep ==
    /\ pc = "build"
    /\ \E r \in {build_model_and_fit(FinalNComponents, model_config)} :
           /\ finalized' = Append(finalized,
                   [n_components |-> FinalNComponents, model_config |-> model_config,
                    result |-> r])
           /\ IF r.ok
              THEN /\ pred_labels' = r.val.labels
                   /\ model' = r.val.model
                   /\ pc' = After("build")
                   /\ UNCHANGED exc
              ELSE /\ Propagate(r.exc)
                   /\ UNCHANGED <<pred_labels, model>>
    /\ UNCHANGED <<scaled, lpa_data, files, em, model_config, n, lists, params_seraching,
                   save_path, stdout, ncalls, gmm_model,
                   total_entropy>>

NameFilesStep ==
    /\ pc = "name_files"
    /\ \E io_ok \in BOOLEAN :
          LET r == name_saved_files(model_config, files, io_ok)
          IN  IF r.ok
              THEN /\ files' = r.val.files
                   /\ save_path' = r.val.save_path
                   /\ pc' = After("name_files")
                   /\ UNCHANGED exc
              ELSE /\ Propagate(r.exc)
                   /\ UNCHANGED <<files, save_path>>
    /\ UNCHANGED <<scaled, lpa_data, em, model_config, n, lists, params_seraching,
                   pred_labels, model, stdout, finalized, ncalls, gmm_model,
                   total_entropy>>

DumpStep ==
    /\ pc = "dump"
    /\ \E io_ok \in BOOLEAN :
          LET r == dump(model, save_path.model, files, io_ok)
          IN  IF r.ok
              THEN /\ files' = r.val.files
                   /\ pc' = After("dump")
                   /\ UNCHANGED exc
              ELSE /\ Propagate(r.exc)
                   /\ UNCHANGED files
    /\ UNCHANGED <<scaled, lpa_data, em, model_config, n, lists, params_seraching,
                   pred_labels, model, save_path, stdout, finalized, ncalls, gmm_model,
                   total_entropy>>

SaveLabelsStep ==
    /\ pc = "save_labels"
    /\ \E io_ok \in BOOLEAN :
          LET r == save_predict_labels(lpa_data, pred_labels, files, io_ok)
          IN  /\ lpa_data' = r.frame
              /\ IF r.ok
                 THEN /\ files' = r.files
                      /\ pc' = After("save_labels")
                      /\ UNCHANGED exc
                 ELSE /\ Propagate(r.exc)
                      /\ UNCHANGED files
    /\ UNCHANGED <<scaled, em, model_config, n, lists, params_seraching, pred_labels,
                   model, save_path, stdout, finalized, ncalls, gmm_model,
                   total_entropy>>

PrintStep ==
    /\ pc = "print"
    /\ stdout' = Append(stdout, Line("results saved", 0))
    /\ pc' = After("print")
    /\ UNCHANGED <<scaled, lpa_data, files, em, model_config, n, lists, params_seraching,
                   pred_labels, model, save_path, exc, finalized, ncalls, gmm_model,
                   total_entropy>>

Next ==
    \/ FinetuneStep
    \/ SaveFinetuneStep
    \/ BuildStep
    \/ NameFilesStep
    \/ DumpStep
    \/ SaveLabelsStep
    \/ PrintStep

Spec == Init /\ [][Next]_vars

-----------------------------------------------------------------------------
(* The functions of the module called one after the other by one process *)

\* the component counts the caller finalizes with
ApiComponentCounts == {2, FinalNComponents}

\* the oracles in which at most one candidate does not converge
ApiOracles ==
    {f \in EmOracles : Cardinality({k \in n_profiles : f[k] # "converged"}) <= 1}

InitApi ==
    /\ scaled = Scaled(MaxRows)
    /\ lpa_data = DataFrame(scaled, FeatureColumns)
    /\ files = [p \in Paths |-> Absent]
    /\ em \in ApiOracles
    /\ pc = "caller"
    /\ model_config \in {ModelConfig(ct) : ct \in CovarianceTypes}
    /\ n = 1
    /\ lists = EmptyLists
    /\ params_seraching = None
    /\ pred_labels = None
    /\ model = None
    /\ save_path = None
    /\ exc = None
    /\ stdout = <<>>
    /\ finalized = <<>>
    /\ ncalls = 0
    /\ gmm_model = None
    /\ total_entropy = None

\* params_seraching = finetune_model(lpa_data, model_config)
ApiFinetune ==
    /\ pc = "caller"
    /\ ncalls < MaxCalls
    /\ ncalls' = ncalls + 1
    /\ \E r \in {finetune_model(lpa_data, model_config, em)} :
          /\ params_seraching' = IF r.ok THEN r.val ELSE params_seraching
          /\ exc' = IF r.ok THEN None ELSE r.exc
    /\ UNCHANGED <<scaled, lpa_data, files, em, pc, model_config, n, lists,
                   pred_labels, model, save_path, stdout, finalized, gmm_model,
                   total_entropy>>

\* save_finetune_result(params_seraching, saved_path)
ApiSaveFinetune ==
    /\ pc = "caller"
    /\ ncalls < MaxCalls
    /\ params_seraching # None
    /\ ncalls' = ncalls + 1
    /\ \E io_ok \in BOOLEAN :
          LET r == save_finetune_result(params_seraching, files, stdout, io_ok)
          IN  IF r.ok
              THEN /\ files' = r.val.files
                   /\ stdout' = r.val.stdout
                   /\ exc' = None
              ELSE /\ exc' = r.exc
                   /\ UNCHANGED <<files, stdout>>
    /\ UNCHANGED <<scaled, lpa_data, em, pc, model_config, n, lists,
                   params_seraching, pred_labels, model, save_path, finalized,
                   gmm_model, total_entropy>>

\* pred_labels, model = build_model_and_fit(k, model_config)
ApiBuild ==
    /\ pc = "caller"
    /\ ncalls < MaxCalls
    /\ ncalls' = ncalls + 1
    /\ \E k \in ApiComponentCounts :
       \E r \in {build_model_and_fit(k, model_config)} :
          /\ finalized' = Append(finalized,
                  [n_components |-> k, model_config |-> model_config, result |-> r])
          /\ pred_labels' = IF r.ok THEN r.val.labels ELSE pred_labels
          /\ model' = IF r.ok THEN r.val.model ELSE model
          /\ exc' = IF r.ok THEN None ELSE r.exc
    /\ UNCHANGED <<scaled, lpa_data, files, em, pc, model_config, n, lists,
                   params_seraching, save_path, stdout, gmm_model, total_entropy>>

\* save_predict_labels(lpa_data, pred_labels, saved_path + "/lpa_k5.csv")
ApiSaveLabels ==
    /\ pc = "caller"
    /\ ncalls < MaxCalls
    /\ pred_labels # None
    /\ ncalls' = ncalls + 1
    /\ \E io_ok \in BOOLEAN :
          LET r == save_predict_labels(lpa_data, pred_labels, files, io_ok)
          IN  /\ lpa_data' = r.frame
              /\ IF r.ok
                 THEN /\ files' = r.files
                      /\ exc' = None
                 ELSE /\ exc' = r.exc
                      /\ UNCHANGED files
    /\ UNCHANGED <<scaled, em, pc, model_config, n, lists, params_seraching,
                   pred_labels, model, save_path, stdout, finalized, gmm_model,
                   total_entropy>>

NextApi ==
    \/ ApiFinetune
    \/ ApiSaveFinetune
    \/ ApiBuild
    \/ ApiSaveLabels

SpecApi == InitApi /\ [][NextApi]_vars

-----------------------------------------------------------------------------
(* compute_gmm_entropy applied to a mixture given by its parameters *)

\* symmetric positive semi-definite 2 x 2 matrices, row-major; the last four
\* are singular
CovPool ==
    {<<1, 0, 0, 1>>, <<2, 1, 1, 2>>, <<1, 1, 1, 1>>, <<0, 0, 0, 0>>, <<1, 2, 2, 4>>,
     <<2, 0, 0, 0>>}

\* mixing weights in units of 1 / WDen: positive, summing to one
WeightVectors(k) == {w \in [1..k -> 1..WDen] : SeqSum(w) = WDen}

\* a mixture of k components over two features
Mixture(k, w, covs) ==
    [weights_ |-> Arr(<<k>>, w),
     weights_den |-> WDen,
     means_ |-> Full(<<k, 2>>, 0),
     covariances_ |-> Arr(<<k, 2, 2>>,
                          [i \in 1..(4 * k) |-> covs[((i - 1) \div 4) + 1][((i - 1) % 4) + 1]])]

EntropyInputs ==
    UNION {{Mixture(k, w, covs) : w \in WeightVectors(k), covs \in [1..k -> CovPool]} :
              k \in 1..MaxComponents}

InitEntropy ==
    /\ gmm_model \in EntropyInputs
    /\ total_entropy = None
    /\ pc = "entropy"
    /\ scaled = Scaled(MaxRows)
    /\ lpa_data = DataFrame(scaled, FeatureColumns)
    /\ files = [p \in Paths |-> Absent]
    /\ em = [k \in n_profiles |-> "converged"]
    /\ model_config = DefaultModelConfig
    /\ n = 1
    /\ lists = EmptyLists
    /\ params_seraching = None
    /\ pred_labels = None
    /\ model = None
    /\ save_path = None
    /\ exc = None
    /\ stdout = <<>>
    /\ finalized = <<>>
    /\ ncalls = 0

\* total_entropy = compute_gmm_entropy(gmm_model)
EntropyCall ==
    /\ pc = "entropy"
    /\ total_entropy' = compute_gmm_entropy(gmm_model)
    /\ pc' = "returned"
    /\ UNCHANGED <<scaled, lpa_data, files, em, model_config, n, lists,
                   params_seraching, pred_labels, model, save_path, exc, stdout,
                   finalized, ncalls, gmm_model>>

NextEntropy == EntropyCall

SpecEntropy == InitEntropy /\ [][NextEntropy]_vars

-----------------------------------------------------------------------------
(* Properties of a run of main *)

\* the frame main starts from: the four standardized feature columns
Frame0 == DataFrame(scaled, FeatureColumns)

MainSteps == {MainOrder[i] : i \in 1..Len(MainOrder)}

\* main has completed the statement step without an exception
Reached(step) ==
    \/ pc = "done"
    \/ pc \in MainSteps /\ PositionOf(pc) > PositionOf(step)

Printed(text) == \E i \in 1..Len(stdout) : stdout[i].text = text

\* no fit of the sweep raises on the data of this run
EveryFitSucceeds ==
    \A k \in DOMAIN em : Fit(GaussianMixture(k, model_config), Frame0, em[k]).ok

\* C1: at every point of the loop the five lists have one entry per completed
\* candidate, the candidates recorded are 1, 2, ... in increasing order, and a
\* sweep in which every fit succeeds returns exactly nine rows for 1..9.
C1_SweepTable ==
    /\ \A c \in DOMAIN lists : Len(lists[c]) = n - 1
    /\ \A i \in 1..Len(lists["n_components"]) : lists["n_components"][i] = i
    /\ params_seraching # None =>
          /\ \A c \in DOMAIN params_seraching :
                Len(params_seraching[c]) = NProfilesStop - 1
          /\ params_seraching["n_components"] = [i \in 1..(NProfilesStop - 1) |-> i]
    /\ (pc # "finetune" /\ EveryFitSucceeds) => params_seraching # None

C1_Witness ==
    /\ pc = "save_finetune"
    /\ params_seraching # None
    /\ Len(params_seraching["aic"]) = NProfilesStop - 1

\* C2: when the fit of a candidate fails (ill-defined covariance, or no
\* convergence within max_iter), the sweep aborts there: main ends with the
\* exception, no table is returned or written and no row exists for the
\* failed candidate.
C2_FailedFitAbortsSweep ==
    \A k \in DOMAIN em :
        (em[k] # "converged" /\ (n > k \/ (n = k /\ pc = "raised"))) =>
            /\ pc = "raised"
            /\ params_seraching = None
            /\ \A i \in 1..Len(lists["n_components"]) : lists["n_components"][i] # k
            /\ files[InfoCriterionPath] \in {Absent, Stale}

\* C4: a write that fails ends main with its error: every statement main has
\* passed left its artifact behind, "results saved" is printed only when all
\* four writes succeeded, and a failure of a final write (folder, model,
\* labeled data) happens only once the finalizer has returned.
C4_WriteFailuresPropagate ==
    /\ Reached("save_finetune") =>
          /\ files[InfoCriterionPath] =
                [header |-> ResultColumns, table |-> params_seraching]
          /\ Printed("Saved results to infoCriterion.csv")
    /\ Reached("name_files") => Exists(files, ModelFolder(model_config.covariance_type))
    /\ Reached("dump") =>
          files[ModelPath(model_config.covariance_type)] = [joblib |-> model]
    /\ Reached("save_labels") => files[LabelsPath] = lpa_data
    /\ Printed("results saved") => /\ pc = "done"
                                   /\ exc = None
                                   /\ Reached("save_labels")
    /\ exc # None => /\ pc = "raised"
                     /\ ~Printed("results saved")
    /\ (exc # None /\ exc.at \in {"_name_saved_files", "dump", "save_predict_labels"}) =>
          /\ exc.type = "OSError"
          /\ model # None
          /\ pred_labels # None
          /\ Len(finalized) = 1 /\ finalized[1].result.ok

C4_Witness ==
    /\ pc = "raised"
    /\ exc # None
    /\ exc.type = "OSError"
    /\ exc.at = "dump"
    /\ model # None

\* C5: the finalizer returns one label per observation, each an index in
\* 0..K-1 for the chosen K, and the labeled data set written holds the four
\* feature columns and one cluster column, one row per observation in the
\* order of the input.
C5_LabelsAndLabeledDataset ==
    /\ pred_labels # None =>
          /\ Len(pred_labels) = Len(scaled)
          /\ \A i \in 1..Len(pred_labels) : pred_labels[i] \in 0..(FinalNComponents - 1)
    /\ files[LabelsPath] \notin {Absent, Stale} =>
          /\ files[LabelsPath].columns = FeatureColumns \o <<"cluster">>
          /\ Len(files[LabelsPath].rows) = Len(scaled)
          /\ \A i \in 1..Len(scaled) :
                files[LabelsPath].rows[i] = scaled[i] \o <<pred_labels[i]>>

C5_Witness ==
    /\ pc = "done"
    /\ files[LabelsPath] \notin {Absent, Stale}
    /\ Len(pred_labels) = Len(scaled)

\* the row of candidate k computed alone, from the data, k and the
\* configuration, with nothing of the other passes
RowAlone(k) == SweepIteration(k, Frame0, model_config, em[k], EmptyLists)

SameAsAlone(ls, k) ==
    \E alone \in {RowAlone(k)} :
        /\ alone.ok
        /\ \A c \in DOMAIN ls : ls[c][k] = ListsAfter(alone.val)[c][1]

C7_FinalModelIndependentOfTable ==
    model # None =>
        \E r \in {Fit(GaussianMixture(FinalNComponents, model_config), Frame0,
                      em[FinalNComponents])} :
            /\ r.ok
            /\ model = r.val
            /\ pred_labels = Predict(r.val, Frame0)

C7_Witness ==
    /\ model # None
    /\ params_seraching # None
    /\ \E i \in 1..Len(params_seraching["aic"]) :
          ~params_seraching["aic"][i].of.converged_

\* C10: every fit of the run sees the four standardized feature columns; the
\* module-level frame changes only by the cluster column that
\* save_predict_labels adds, after the last fit and after the model has been
\* serialized.
C10_FitsSeeFeatureMatrix ==
    /\ \A i \in 1..Len(lists["aic"]) :
          /\ lists["aic"][i].of.X_fit = Frame0
          /\ lists["aic"][i].on = Frame0
    /\ model # None => model.X_fit = Frame0
    /\ lpa_data # Frame0 =>
          /\ lpa_data = WithCluster(Frame0, pred_labels)
          /\ n = NProfilesStop
          /\ model # None
          /\ Len(finalized) = 1
          /\ files[ModelPath(model_config.covariance_type)] = [joblib |-> model]
          /\ pc \in {"print", "done", "raised"}
          /\ pc = "raised" => exc.at = "save_predict_labels"

C10_Witness ==
    /\ lpa_data # Frame0
    /\ Len(lists["aic"]) = NProfilesStop - 1
    /\ model # None

-----------------------------------------------------------------------------
(* Properties of the functions called by one process *)

\* C3: two calls of build_model_and_fit with the same component count and
\* configuration in one process return the same labels and the same model,
\* whatever was called between them.
C3_FinalizeIdempotent ==
    \A i, j \in 1..Len(finalized) :
        (/\ finalized[i].n_components = finalized[j].n_components
         /\ finalized[i].model_config = finalized[j].model_config) =>
            finalized[i].result = finalized[j].result

\* C9: under each of the four covariance types the entropy estimator and the
\* likelihood decomposer accept the fitted model, pairing every weight with a
\* square covariance matrix of its component, so that no call ends in an
\* exception of theirs and a sweep whose fits succeed returns its table.
C9_EveryCovarianceTypeCompletes ==
    exc # None => exc.at \notin {"compute_gmm_entropy", "compute_component_loglikelihoods"}

-----------------------------------------------------------------------------
(* Properties of the entropy estimator *)

ComponentDet(i) == det(Index0(gmm_model.covariances_, i - 1))

ValidWeights ==
    /\ \A i \in 1..Len(gmm_model.weights_.flat) : gmm_model.weights_.flat[i] > 0
    /\ SeqSum(gmm_model.weights_.flat) = gmm_model.weights_den

\* C8: for a mixture with valid weights, compute_gmm_entropy returns (and does
\* not raise) -inf when some component covariance has determinant 0, and a
\* finite value when every determinant is positive.
C8_EntropyOfSingularCovariance ==
    total_entropy # None =>
        /\ total_entropy.ok
        /\ (\E i \in 1..gmm_model.weights_.shape[1] : ComponentDet(i) = 0) =>
              total_entropy.val = "ninf"
        /\ (ValidWeights /\ \A i \in 1..gmm_model.weights_.shape[1] : ComponentDet(i) > 0) =>
              total_entropy.val = "fin"

C8_Witness ==
    /\ total_entropy # None
    /\ total_entropy.val = "ninf"
    /\ gmm_model.weights_.shape[1] = 2
    /\ ComponentDet(1) > 0
    /\ ComponentDet(2) = 0

====
